---- MODULE Spec2Model ----
(***************************************************************************)
(* Course registration ledger (src/course_registration.cpp) together with  *)
(* the enrollment list of the Student objects it mutates (src/student.h).  *)
(*                                                                         *)
(* A Student object is identified by its studentId.  CourseInfo.courseName *)
(* is never read by any operation and is left out of the course records.   *)
(***************************************************************************)
EXTENDS Integers, Sequences, FiniteSets, TLC

\* ------------------------------------------------------------------ bounds
MaxTime == 1
MaxCapacity == 1

\* Student::enrollInCourse's "maximum course limit" (student.h:72).  The
\* source names the limit without a value; 2 lets three course codes reach it.
MaxCourses == 2

\* ------------------------------------------------------------- input sets
Students == {"s1", "s2"}
CatalogCodes == {"CS101", "CS201"}
Codes == CatalogCodes \cup {"MATH201"}
\* A negative capacity, none, and the largest.
Capacities == {-1, 0, MaxCapacity}
\* A deadline that passes at the first tick and one that is never passed.
Deadlines == {0, MaxTime}
\* The prerequisite sets each course is offered with: CS101 is the entry
\* course; CS201 builds on CS101, on MATH201 (never in the catalog), or on
\* both.
PrereqSets(c) ==
    IF c = "CS101" THEN {{}}
    ELSE {{"CS101"}, {"MATH201"}, {"CS101", "MATH201"}}

\* courses:         CourseRegistration::courses, course code -> CourseInfo
\* enrolledCourses: Student::enrolledCourses of each student, by studentId
\* now:             the clock read by time(nullptr)
\* last:            the outcome of the last call (return value or exception)
VARIABLES courses, enrolledCourses, now, last

vars == <<courses, enrolledCourses, now, last>>

\* ---------------------------------------------------------------- helpers
Range(seq) == {seq[i] : i \in 1 .. Len(seq)}

\* The outcome of the last call: what it raised ("" when it returned), and
\* the returned status or boolean.
Outcome(op, raised, status, flag) ==
    [op |-> op, raised |-> raised, status |-> status, flag |-> flag]

Raised(op, what) == Outcome(op, what, "", FALSE)
Status(op, st) == Outcome(op, "", st, FALSE)
Flag(op, b) == Outcome(op, "", "", b)

\* ---------------------------------------------------------------- Student
\* Student::enrollInCourse on a list: what it raises, what it returns, and
\* the list afterwards.
enrollInCourseOn(list, courseCode) ==
    IF courseCode \in Range(list)
    THEN [raised |-> "", ret |-> FALSE, list |-> list]
    ELSE IF Len(list) >= MaxCourses
    THEN [raised |-> "RuntimeError", ret |-> FALSE, list |-> list]
    ELSE [raised |-> "", ret |-> TRUE, list |-> Append(list, courseCode)]

enrollInCourse(s, courseCode) ==
    LET r == enrollInCourseOn(enrolledCourses[s], courseCode) IN
    /\ enrolledCourses' = [enrolledCourses EXCEPT ![s] = r.list]
    /\ last' = IF r.raised # ""
               THEN Raised("enrollInCourse", r.raised)
               ELSE Flag("enrollInCourse", r.ret)
    /\ UNCHANGED <<courses, now>>

\* ----------------------------------------------------- CourseRegistration
\* addCourse without the duplicate check: courses[courseCode] = info overwrites.
addCourseOverwrites(courseCode, capacity, prerequisites, deadline) ==
    /\ IF capacity < 0
       THEN /\ last' = Raised("addCourse", "OutOfRange")
            /\ UNCHANGED courses
       ELSE /\ courses' = [c \in DOMAIN courses \cup {courseCode} |->
                             IF c = courseCode
                             THEN [maxCapacity |-> capacity,
                                   prerequisites |-> prerequisites,
                                   enrolledStudents |-> {},
                                   registrationDeadline |-> deadline]
                             ELSE courses[c]]
            /\ last' = Outcome("addCourse", "", "", FALSE)
    /\ UNCHANGED <<enrolledCourses, now>>

addCourse(courseCode, capacity, prerequisites, deadline) ==
    /\ IF courseCode \in DOMAIN courses
       THEN /\ last' = Raised("addCourse", "InvalidArgument")
            /\ UNCHANGED courses
       ELSE IF capacity < 0
       THEN /\ last' = Raised("addCourse", "OutOfRange")
            /\ UNCHANGED courses
       ELSE /\ courses' = [c \in DOMAIN courses \cup {courseCode} |->
                             IF c = courseCode
                             THEN [maxCapacity |-> capacity,
                                   prerequisites |-> prerequisites,
                                   enrolledStudents |-> {},
                                   registrationDeadline |-> deadline]
                             ELSE courses[c]]
            /\ last' = Outcome("addCourse", "", "", FALSE)
    /\ UNCHANGED <<enrolledCourses, now>>

\* validatePrerequisites returning true at the first prerequisite found.
validatePrerequisitesAny(s, courseCode) ==
    IF courseCode \notin DOMAIN courses
    THEN FALSE
    ELSE \/ courses[courseCode].prerequisites = {}
         \/ \E prereq \in courses[courseCode].prerequisites :
               prereq \in Range(enrolledCourses[s])

validatePrerequisites(s, courseCode) ==
    IF courseCode \notin DOMAIN courses
    THEN FALSE
    ELSE \A prereq \in courses[courseCode].prerequisites :
            prereq \in Range(enrolledCourses[s])

deadlinePassed(course) == now > course.registrationDeadline

\* registerStudent without its duplicate check.
alreadyEnrolledUnchecked(course, s) == FALSE

alreadyEnrolled(course, s) == s \in course.enrolledStudents

\* The capacity check with > for >=.
capacityReachedOffByOne(course) ==
    Cardinality(course.enrolledStudents) > course.maxCapacity

capacityReached(course) == Cardinality(course.enrolledStudents) >= course.maxCapacity

\* The chain of checks with capacity tested before the duplicate.
rejectionCapacityFirst(s, courseCode) ==
    LET course == courses[courseCode] IN
    IF deadlinePassed(course) THEN "REGISTRATION_CLOSED"
    ELSE IF capacityReached(course) THEN "COURSE_FULL"
    ELSE IF alreadyEnrolled(course, s) THEN "ALREADY_ENROLLED"
    ELSE IF ~validatePrerequisites(s, courseCode) THEN "PREREQ_NOT_MET"
    ELSE ""

\* The chain of checks of registerStudent on a known course; "" when all pass.
rejection(s, courseCode) ==
    LET course == courses[courseCode] IN
    IF deadlinePassed(course) THEN "REGISTRATION_CLOSED"
    ELSE IF alreadyEnrolled(course, s) THEN "ALREADY_ENROLLED"
    ELSE IF capacityReached(course) THEN "COURSE_FULL"
    ELSE IF ~validatePrerequisites(s, courseCode) THEN "PREREQ_NOT_MET"
    ELSE ""

\* The registering step appending to the student's list itself (push_back)
\* instead of calling enrollInCourse.
enrollPushBack(s, courseCode) ==
    /\ courses' = [courses EXCEPT ![courseCode].enrolledStudents = @ \cup {s}]
    /\ enrolledCourses' = [enrolledCourses EXCEPT ![s] = Append(@, courseCode)]
    /\ last' = Status("registerStudent", "SUCCESS")

\* The registering step: insert the ID, then call the student's
\* enrollInCourse, whose exception propagates after the insertion.
enroll(s, courseCode) ==
    LET r == enrollInCourseOn(enrolledCourses[s], courseCode) IN
    /\ courses' = [courses EXCEPT ![courseCode].enrolledStudents = @ \cup {s}]
    /\ enrolledCourses' = [enrolledCourses EXCEPT ![s] = r.list]
    /\ last' = IF r.raised # ""
               THEN Raised("registerStudent", r.raised)
               ELSE Status("registerStudent", "SUCCESS")

registerStudent(s, courseCode) ==
    /\ IF courseCode \notin DOMAIN courses
       THEN /\ last' = Raised("registerStudent", "InvalidArgument")
            /\ UNCHANGED <<courses, enrolledCourses>>
       ELSE IF rejection(s, courseCode) # ""
       THEN /\ last' = Status("registerStudent", rejection(s, courseCode))
            /\ UNCHANGED <<courses, enrolledCourses>>
       ELSE enroll(s, courseCode)
    /\ UNCHANGED now

\* withdrawStudent that also drops the course from the student's own list.
withdrawStudentAlsoUnenrolls(studentId, courseCode) ==
    /\ IF courseCode \notin DOMAIN courses
       THEN /\ last' = Flag("withdrawStudent", FALSE)
            /\ UNCHANGED <<courses, enrolledCourses>>
       ELSE /\ courses' = [courses EXCEPT ![courseCode].enrolledStudents = @ \ {studentId}]
            /\ enrolledCourses' = [enrolledCourses EXCEPT ![studentId] =
                                      SelectSeq(@, LAMBDA x : x # courseCode)]
            /\ last' = Flag("withdrawStudent",
                            studentId \in courses[courseCode].enrolledStudents)
    /\ UNCHANGED now

withdrawStudent(studentId, courseCode) ==
    /\ IF courseCode \notin DOMAIN courses
       THEN /\ last' = Flag("withdrawStudent", FALSE)
            /\ UNCHANGED courses
       ELSE /\ courses' = [courses EXCEPT ![courseCode].enrolledStudents = @ \ {studentId}]
            /\ last' = Flag("withdrawStudent",
                            studentId \in courses[courseCode].enrolledStudents)
    /\ UNCHANGED <<enrolledCourses, now>>

\* getEnrollmentCount answering 0 for an unknown course.
getEnrollmentCountNoThrow(courseCode) ==
    IF courseCode \notin DOMAIN courses
    THEN [raised |-> "", ret |-> 0]
    ELSE [raised |-> "", ret |-> Cardinality(courses[courseCode].enrolledStudents)]

\* The two queries are const: their result is a function of the catalog.
getEnrollmentCount(courseCode) ==
    IF courseCode \notin DOMAIN courses
    THEN [raised |-> "OutOfRange", ret |-> 0]
    ELSE [raised |-> "", ret |-> Cardinality(courses[courseCode].enrolledStudents)]

isCourseFull(courseCode) ==
    IF courseCode \notin DOMAIN courses
    THEN [raised |-> "OutOfRange", ret |-> FALSE]
    ELSE [raised |-> "",
          ret |-> Cardinality(courses[courseCode].enrolledStudents)
                     >= courses[courseCode].maxCapacity]

\* time(nullptr) as read by registerStudent: the clock only moves forward.
Tick ==
    /\ now < MaxTime
    /\ now' = now + 1
    /\ UNCHANGED <<courses, enrolledCourses, last>>

\* ------------------------------------------------------------ specification
Init ==
    /\ courses = <<>>
    /\ enrolledCourses = [s \in Students |-> <<>>]
    /\ now = 0
    /\ last = Outcome("", "", "", FALSE)

Next ==
    \/ \E c \in CatalogCodes, cap \in Capacities, d \in Deadlines :
          \E pre \in PrereqSets(c) :
          addCourse(c, cap, pre, d)
    \/ \E s \in Students, c \in Codes : registerStudent(s, c)
    \/ \E s \in Students, c \in Codes : withdrawStudent(s, c)
    \/ \E s \in Students, c \in Codes : enrollInCourse(s, c)
    \/ Tick

Spec == Init /\ [][Next]_vars

\* ------------------------------------------------------------------ claims
NoDuplicates(list) == Cardinality(Range(list)) = Len(list)

Enrolled(c) == courses[c].enrolledStudents

Returned(st) == last' = Status("registerStudent", st)

\* The step leaves the outcome of a call of op.
Called(op) == last'.op = op

\* C1: every course in the catalog has at most maxCapacity enrolled
\* students, courses of capacity 0 included.
C1_CapacityRespected ==
    \A c \in DOMAIN courses : Cardinality(Enrolled(c)) <= courses[c].maxCapacity

\* A registration was turned away as COURSE_FULL while one course is filled
\* to its capacity of 1 and another, of capacity 0, is empty.
C1_Witness ==
    /\ last = Status("registerStudent", "COURSE_FULL")
    /\ \E c \in DOMAIN courses :
          courses[c].maxCapacity = 1 /\ Cardinality(Enrolled(c)) = 1
    /\ \E c \in DOMAIN courses : courses[c].maxCapacity = 0

\* The first matching status in the order deadline, duplicate, capacity,
\* prerequisites, written from the course's fields; "" when none matches.
FirstMatch(s, c) ==
    IF now > courses[c].registrationDeadline THEN "REGISTRATION_CLOSED"
    ELSE IF s \in Enrolled(c) THEN "ALREADY_ENROLLED"
    ELSE IF Cardinality(Enrolled(c)) >= courses[c].maxCapacity THEN "COURSE_FULL"
    ELSE IF \E p \in courses[c].prerequisites : p \notin Range(enrolledCourses[s])
    THEN "PREREQ_NOT_MET"
    ELSE ""

\* The student's list is at the course limit and does not hold c.
AtLimit(s, c) ==
    Len(enrolledCourses[s]) >= MaxCourses /\ c \notin Range(enrolledCourses[s])

\* C2 as stated: on a course of the catalog registerStudent returns the
\* first matching status in the order deadline, duplicate, capacity,
\* prerequisites, and SUCCESS when none matches.
C2_FirstMatchOrSuccess ==
    [][Called("registerStudent") => \A s \in Students, c \in Codes :
          (c \in DOMAIN courses /\ registerStudent(s, c)) =>
             Returned(IF FirstMatch(s, c) # "" THEN FirstMatch(s, c) ELSE "SUCCESS")]_vars

\* C2 amended: on a course of the catalog registerStudent returns the first
\* matching status in the order deadline, duplicate, capacity, prerequisites;
\* when none matches it raises RuntimeError if the student's list is at the
\* course limit and lacks the course, and returns SUCCESS otherwise.
\* TIME_CONFLICT is never returned.
C2_FirstMatchOrLimit ==
    [][(Called("registerStudent") => \A s \in Students, c \in Codes :
          (c \in DOMAIN courses /\ registerStudent(s, c)) =>
             IF FirstMatch(s, c) # "" THEN Returned(FirstMatch(s, c))
             ELSE IF AtLimit(s, c)
             THEN last' = Raised("registerStudent", "RuntimeError")
             ELSE Returned("SUCCESS"))
       /\ last'.status # "TIME_CONFLICT"]_vars

\* ALREADY_ENROLLED was returned while every open course is full, and a
\* closed course exists as well.
C2_Witness ==
    /\ last = Status("registerStudent", "ALREADY_ENROLLED")
    /\ \A c \in DOMAIN courses :
          now <= courses[c].registrationDeadline =>
             Cardinality(Enrolled(c)) >= courses[c].maxCapacity
    /\ \E c \in DOMAIN courses : now <= courses[c].registrationDeadline
    /\ \E c \in DOMAIN courses : now > courses[c].registrationDeadline

\* C3: a registerStudent call that does not return SUCCESS leaves the
\* catalog and every student's list unchanged; one that returns SUCCESS has
\* the ID in the course's enrolledStudents and the code in the student's list.
C3_SideEffectsOnSuccessOnly ==
    [][Called("registerStudent") => \A s \in Students, c \in Codes :
          registerStudent(s, c) =>
             IF Returned("SUCCESS")
             THEN s \in courses'[c].enrolledStudents /\ c \in Range(enrolledCourses'[s])
             ELSE UNCHANGED <<courses, enrolledCourses>>]_vars

\* C4: withdrawStudent on a known course returns true iff the ID was
\* enrolled; then the enrollment count drops by exactly 1; the students'
\* lists, the other courses and the course's capacity, prerequisites and
\* deadline never change.
C4_WithdrawFrame ==
    [][Called("withdrawStudent") => \A s \in Students, c \in Codes :
          (c \in DOMAIN courses /\ withdrawStudent(s, c)) =>
             /\ last' = Flag("withdrawStudent", s \in Enrolled(c))
             /\ getEnrollmentCount(c)'.ret =
                   getEnrollmentCount(c).ret - (IF last'.flag THEN 1 ELSE 0)
             /\ enrolledCourses' = enrolledCourses
             /\ DOMAIN courses' = DOMAIN courses
             /\ \A d \in DOMAIN courses \ {c} : courses'[d] = courses[d]
             /\ courses'[c].maxCapacity = courses[c].maxCapacity
             /\ courses'[c].prerequisites = courses[c].prerequisites
             /\ courses'[c].registrationDeadline = courses[c].registrationDeadline]_vars

\* A withdrawal returned true and left behind a student whose list names a
\* course of the catalog that no longer has the student enrolled.
C4_Witness ==
    /\ last = Flag("withdrawStudent", TRUE)
    /\ \E s \in Students, c \in DOMAIN courses :
          /\ c \in Range(enrolledCourses[s])
          /\ s \notin Enrolled(c)
          /\ \E d \in DOMAIN courses : d # c /\ Enrolled(d) # {}

\* C5: a SUCCESS puts the student into the course's enrolledStudents; only
\* a withdrawStudent of that student from that course takes the student out
\* again; and while the student is there, a
\* registerStudent for the pair made before the deadline passes returns
\* ALREADY_ENROLLED and leaves the enrollment count unchanged.
\* (Only a registerStudent step or a step that changes the catalog can
\* meet one of the three premises.)
C5_ThenAlreadyEnrolled ==
    [][(Called("registerStudent") \/ courses' # courses) =>
       \A s \in Students, c \in Codes :
          /\ (Returned("SUCCESS") /\ registerStudent(s, c)) =>
                s \in courses'[c].enrolledStudents
          /\ (c \in DOMAIN courses /\ s \in Enrolled(c)
                /\ s \notin courses'[c].enrolledStudents) => withdrawStudent(s, c)
          /\ (c \in DOMAIN courses /\ s \in Enrolled(c)
                /\ now <= courses[c].registrationDeadline /\ registerStudent(s, c)) =>
                /\ Returned("ALREADY_ENROLLED")
                /\ getEnrollmentCount(c)'.ret = getEnrollmentCount(c).ret]_vars

\* ALREADY_ENROLLED was returned while an enrolled student's course is open.
C5_Witness ==
    /\ last = Status("registerStudent", "ALREADY_ENROLLED")
    /\ \E c \in DOMAIN courses : \E s \in Enrolled(c) :
          /\ now <= courses[c].registrationDeadline
          /\ c \in Range(enrolledCourses[s])

\* The call is for an open, non-full course of the catalog the student is
\* not enrolled in.
Admissible(s, c) ==
    /\ c \in DOMAIN courses
    /\ now <= courses[c].registrationDeadline
    /\ s \notin Enrolled(c)
    /\ Cardinality(Enrolled(c)) < courses[c].maxCapacity

\* C6 as stated: on an open, non-full course the student is not in,
\* registerStudent returns PREREQ_NOT_MET while a prerequisite is absent
\* from the student's list and SUCCESS once every prerequisite is in it.
C6_PrereqsByEnrollment ==
    [][Called("registerStudent") => \A s \in Students, c \in Codes :
          (Admissible(s, c) /\ registerStudent(s, c)) =>
             IF courses[c].prerequisites \subseteq Range(enrolledCourses[s])
             THEN Returned("SUCCESS")
             ELSE Returned("PREREQ_NOT_MET")]_vars

\* C6 amended: as stated, except that once every prerequisite is in the
\* list the call returns SUCCESS only if the list has room for the course
\* (or already holds it), and raises RuntimeError otherwise.
C6_PrereqsByEnrollmentOrLimit ==
    [][Called("registerStudent") => \A s \in Students, c \in Codes :
          (Admissible(s, c) /\ registerStudent(s, c)) =>
             IF ~(courses[c].prerequisites \subseteq Range(enrolledCourses[s]))
             THEN Returned("PREREQ_NOT_MET")
             ELSE IF AtLimit(s, c)
             THEN last' = Raised("registerStudent", "RuntimeError")
             ELSE Returned("SUCCESS")]_vars

\* SUCCESS was returned, and a student is enrolled in CS201, whose one
\* prerequisite CS101 is a course of the catalog that has the student
\* enrolled too (only a successful registerStudent puts a student whose list
\* names the course into its enrolledStudents), while the other student,
\* whose list lacks CS101, is not in CS201.
C6_Witness ==
    /\ last = Status("registerStudent", "SUCCESS")
    /\ DOMAIN courses = {"CS101", "CS201"}
    /\ courses["CS201"].prerequisites = {"CS101"}
    /\ \E s \in Students :
          /\ s \in Enrolled("CS101")
          /\ Enrolled("CS201") = {s}
          /\ enrolledCourses[s] = <<"CS101", "CS201">>
          /\ \A o \in Students \ {s} :
                "CS101" \notin Range(enrolledCourses[o])

\* SUCCESS was returned and the one enrolled student is in a course whose
\* prerequisite, not a course of the catalog and added by enrollInCourse,
\* precedes it in the student's list.
PrereqOutsideCatalogReached ==
    /\ last = Status("registerStudent", "SUCCESS")
    /\ \E s \in Students, c \in DOMAIN courses :
          /\ Enrolled(c) = {s}
          /\ \A d \in DOMAIN courses \ {c} : Enrolled(d) = {}
          /\ enrolledCourses[s] = <<"MATH201", c>>
          /\ courses[c].prerequisites = {"MATH201"}
          /\ "MATH201" \notin DOMAIN courses

\* C7: addCourse raises InvalidArgument for a code already in the catalog
\* and OutOfRange for a new code with a negative capacity, both leaving the
\* catalog unchanged; otherwise it adds exactly that course, with the given
\* fields and nobody enrolled, and changes no other course.  No step ever
\* removes a course.
C7_AddCourse ==
    [][(Called("addCourse") => \A c \in CatalogCodes :
          IF c \in DOMAIN courses
          THEN (\E cap \in Capacities, d \in Deadlines, pre \in PrereqSets(c) :
                   addCourse(c, cap, pre, d)) =>
                  last' = Raised("addCourse", "InvalidArgument") /\ courses' = courses
          ELSE \A cap \in Capacities, d \in Deadlines, pre \in PrereqSets(c) :
                  addCourse(c, cap, pre, d) =>
                     IF cap < 0
                     THEN last' = Raised("addCourse", "OutOfRange") /\ courses' = courses
                     ELSE /\ last'.raised = ""
                          /\ DOMAIN courses' = DOMAIN courses \cup {c}
                          /\ courses'[c] = [maxCapacity |-> cap, prerequisites |-> pre,
                                            enrolledStudents |-> {},
                                            registrationDeadline |-> d]
                          /\ \A e \in DOMAIN courses : courses'[e] = courses[e])
       /\ DOMAIN courses \subseteq DOMAIN courses']_vars

\* An addCourse was rejected as a duplicate while every course of the
\* catalog has a student enrolled.
C7_Witness ==
    /\ last = Raised("addCourse", "InvalidArgument")
    /\ DOMAIN courses = CatalogCodes
    /\ \A c \in DOMAIN courses : Enrolled(c) # {}

\* What the two queries answer: OutOfRange for a code absent from the
\* catalog, |enrolledStudents| and |enrolledStudents| >= maxCapacity for a
\* code in it.
QueriesAnswer ==
    \A c \in Codes :
       IF c \in DOMAIN courses
       THEN /\ getEnrollmentCount(c) = [raised |-> "", ret |-> Cardinality(Enrolled(c))]
            /\ isCourseFull(c) =
                  [raised |-> "",
                   ret |-> Cardinality(Enrolled(c)) >= courses[c].maxCapacity]
       ELSE /\ getEnrollmentCount(c).raised = "OutOfRange"
            /\ isCourseFull(c).raised = "OutOfRange"

\* C8: for a code absent from the catalog registerStudent raises
\* InvalidArgument, withdrawStudent returns false, both changing nothing,
\* and getEnrollmentCount and isCourseFull raise OutOfRange; for a code in
\* the catalog the two queries return |enrolledStudents| and
\* |enrolledStudents| >= maxCapacity without raising.
C8_UnknownCourse ==
    /\ []QueriesAnswer
    /\ [][\A s \in Students, c \in Codes :
             c \notin DOMAIN courses =>
                /\ registerStudent(s, c) =>
                      /\ last' = Raised("registerStudent", "InvalidArgument")
                      /\ UNCHANGED <<courses, enrolledCourses, now>>
                /\ withdrawStudent(s, c) =>
                      /\ last' = Flag("withdrawStudent", FALSE)
                      /\ UNCHANGED <<courses, enrolledCourses, now>>]_vars

\* A registerStudent for an unknown code raised InvalidArgument while the
\* catalog holds a course with a student enrolled and the students' lists
\* are not empty.
C8_Witness ==
    /\ last = Raised("registerStudent", "InvalidArgument")
    /\ \E c \in DOMAIN courses : Enrolled(c) # {}
    /\ \A s \in Students : enrolledCourses[s] # <<>>
    /\ DOMAIN courses # CatalogCodes

\* C9: no student's enrolledCourses list holds the same code twice.
C9_NoDuplicateCourses ==
    \A s \in Students : NoDuplicates(enrolledCourses[s])

\* SUCCESS was returned and the one enrolled student's list has the course
\* followed by another code: the course was in the list before the
\* registration, which appended nothing.
C9_Witness ==
    /\ last = Status("registerStudent", "SUCCESS")
    /\ \E s \in Students, c \in DOMAIN courses :
          /\ Enrolled(c) = {s}
          /\ \A d \in DOMAIN courses \ {c} : Enrolled(d) = {}
          /\ enrolledCourses[s] = <<c, "MATH201">>

\* C10: whenever a student's ID is in a course's enrolledStudents, the
\* course's code is in the student's own enrolledCourses list.
C10_LedgerWithinStudentList ==
    \A c \in DOMAIN courses :
       \A s \in Enrolled(c) : c \in Range(enrolledCourses[s])

====
